---- MODULE Spec2Model ----
(***************************************************************************)
(* Grid reconciliation and save cycle of Steam Art Manager                 *)
(* (src-tauri/src/main.rs, src-tauri/src/steam.rs).                        *)
(*                                                                         *)
(* Strings are modelled as sequences of one-character strings, so that     *)
(* rfind, ends_with, contains, replace, format! and PathBuf::join are       *)
(* computed character by character, as the code computes them.              *)
(***************************************************************************)
EXTENDS Integers, Sequences, FiniteSets, TLC

----------------------------------------------------------------------------
(* String helpers (Rust std::string / std::path behaviour)                 *)

\* The empty string: String::from("").
EmptyStr == <<>>

\* The value of an unwinding panic (panic!, expect, unwrap on Err/None).
Panic == <<"PANIC">>

\* str::ends_with
EndsWith(s, suf) ==
  /\ Len(s) >= Len(suf)
  /\ SubSeq(s, Len(s) - Len(suf) + 1, Len(s)) = suf

\* str::starts_with
StartsWith(s, pre) ==
  /\ Len(s) >= Len(pre)
  /\ SubSeq(s, 1, Len(pre)) = pre

\* str::contains
Contains(s, pat) ==
  \E i \in 1..(Len(s) - Len(pat) + 1) : SubSeq(s, i, i + Len(pat) - 1) = pat

\* str::rfind("."): index of the last '.', 0 when there is none (None).
RFindDot(s) ==
  LET dots == {i \in 1..Len(s) : s[i] = "."}
  IN IF dots = {} THEN 0 ELSE CHOOSE i \in dots : \A j \in dots : j <= i

\* str::replace("\\", "/")
ReplaceBackslash(s) == [i \in 1..Len(s) |-> IF s[i] = "\\" THEN "/" ELSE s[i]]

\* PathBuf::join followed by to_str: an absolute argument replaces the base,
\* otherwise a separator is added unless the base already ends with one.
PathJoin(base, p) ==
  IF StartsWith(p, <<"/">>) THEN p
  ELSE IF base = EmptyStr \/ EndsWith(base, <<"/">>) THEN base \o p
  ELSE base \o <<"/">> \o p

Digits == <<"0", "1", "2", "3", "4", "5", "6", "7", "8", "9">>

\* u32::to_string / i64::to_string of a non-negative number.
RECURSIVE NatToString(_)
NatToString(n) ==
  IF n < 10 THEN <<Digits[n + 1]>>
  ELSE NatToString(n \div 10) \o <<Digits[(n % 10) + 1]>>

\* i64::to_string
IntToString(n) == IF n < 0 THEN <<"-">> \o NatToString(-n) ELSE NatToString(n)

----------------------------------------------------------------------------
(* String literals of the program                                          *)

REMOVE == <<"R", "E", "M", "O", "V", "E">>
Capsule == <<"C", "a", "p", "s", "u", "l", "e">>
WideCapsule == <<"W", "i", "d", "e", " ", "C", "a", "p", "s", "u", "l", "e">>
Hero == <<"H", "e", "r", "o">>
Logo == <<"L", "o", "g", "o">>
Icon == <<"I", "c", "o", "n">>
DotWebp == <<".", "w", "e", "b", "p">>
DotJpg == <<".", "j", "p", "g">>
GridWord == <<"g", "r", "i", "d">>

----------------------------------------------------------------------------
(* steam.rs                                                                *)

\* The Steam root directory found by get_steam_root_dir (one fixed install).
SteamRoot == <<"/", "s">>

\* get_grids_directory: <root>/userdata/<active user>/config/grid, where the
\* active user is read from the login-users file (or the registry).
get_grids_directory(active_user) ==
  ReplaceBackslash(
    PathJoin(PathJoin(PathJoin(SteamRoot, <<"u", "s", "e", "r", "d", "a", "t", "a">>),
                      IntToString(active_user)),
             <<"c", "o", "n", "f", "i", "g", "/", "g", "r", "i", "d">>))

----------------------------------------------------------------------------
(* main.rs: file naming                                                    *)

\* Mutant of get_grid_filename: the Logo arm formats the Icon name.
get_grid_filename_logo_as_icon(appid, grid_type, image_type) ==
  CASE grid_type = Capsule -> appid \o <<"p">> \o image_type
    [] grid_type = WideCapsule -> appid \o image_type
    [] grid_type = Hero -> appid \o <<"_", "h", "e", "r", "o">> \o image_type
    [] grid_type = Logo -> appid \o <<"_", "i", "c", "o", "n">> \o image_type
    [] grid_type = Icon -> appid \o <<"_", "i", "c", "o", "n">> \o image_type
    [] OTHER -> Panic

\* Mutant of get_grid_filename: the default arm names the file instead of
\* panicking.
get_grid_filename_default_name(appid, grid_type, image_type) ==
  CASE grid_type = Capsule -> appid \o <<"p">> \o image_type
    [] grid_type = WideCapsule -> appid \o image_type
    [] grid_type = Hero -> appid \o <<"_", "h", "e", "r", "o">> \o image_type
    [] grid_type = Logo -> appid \o <<"_", "l", "o", "g", "o">> \o image_type
    [] grid_type = Icon -> appid \o <<"_", "i", "c", "o", "n">> \o image_type
    [] OTHER -> appid \o image_type

\* get_grid_filename: format! per grid type; any other type panics.
get_grid_filename(appid, grid_type, image_type) ==
  CASE grid_type = Capsule -> appid \o <<"p">> \o image_type
    [] grid_type = WideCapsule -> appid \o image_type
    [] grid_type = Hero -> appid \o <<"_", "h", "e", "r", "o">> \o image_type
    [] grid_type = Logo -> appid \o <<"_", "l", "o", "g", "o">> \o image_type
    [] grid_type = Icon -> appid \o <<"_", "i", "c", "o", "n">> \o image_type
    [] OTHER -> Panic

\* adjust_path: the text from the last '.' of the path is the image type;
\* a path without '.' panics (expect).
adjust_path(appid, path, grid_type) ==
  LET format_start_index == RFindDot(path)
  IN IF format_start_index = 0 THEN Panic
     ELSE get_grid_filename(appid, grid_type,
                            SubSeq(path, format_start_index, Len(path)))

----------------------------------------------------------------------------
(* main.rs: reconciliation                                                 *)

\* A GridImageCache is modelled as a function from <<appid, grid_type>> to a
\* path; its DOMAIN is the set of slots present in the nested hash maps.
Lookup(paths, key) == IF key \in DOMAIN paths THEN paths[key] ELSE EmptyStr

\* The body of filter_paths' inner loop for one (appid, grid_type) slot whose
\* source path differs from the original: the ChangedPath pushed to res, with
\* the .webp -> .jpg rewrite of targetPath. targetPath is Panic when
\* adjust_path panics.
changed_path(grids_dir, appid, grid_type, source_path, grid_path) ==
  LET adjusted == adjust_path(appid, source_path, grid_type)
      target_path ==
        IF source_path # REMOVE
        THEN IF adjusted = Panic THEN Panic
             ELSE ReplaceBackslash(PathJoin(grids_dir, ReplaceBackslash(adjusted)))
        ELSE REMOVE
  IN [appId |-> appid,
      gridType |-> grid_type,
      oldPath |-> ReplaceBackslash(grid_path),
      targetPath |->
        IF target_path # Panic /\ EndsWith(target_path, DotWebp)
        THEN SubSeq(target_path, 1, Len(target_path) - 5) \o DotJpg
        ELSE target_path,
      sourcePath |-> ReplaceBackslash(source_path)]

\* Mutant of filter_loop: every slot is compared with the empty string, not
\* with its original path.
RECURSIVE filter_loop_ignoring_original(_, _, _, _, _)
filter_loop_ignoring_original(grids_dir, order, current_paths, original_paths, res) ==
  IF order = <<>> THEN [panicked |-> FALSE, paths |-> res]
  ELSE LET key == Head(order)
           source_path == current_paths[key]
           grid_path == Lookup(original_paths, key)
           cp == changed_path(grids_dir, key[1], key[2], source_path, grid_path)
       IN IF source_path # EmptyStr
          THEN IF cp.targetPath = Panic
               THEN [panicked |-> TRUE, paths |-> <<>>]
               ELSE filter_loop_ignoring_original(grids_dir, Tail(order),
                      current_paths, original_paths, Append(res, cp))
          ELSE filter_loop_ignoring_original(grids_dir, Tail(order),
                 current_paths, original_paths, res)

\* Mutant of filter_loop: an unchanged slot ends the loop (break for continue).
RECURSIVE filter_loop_break_on_unchanged(_, _, _, _, _)
filter_loop_break_on_unchanged(grids_dir, order, current_paths, original_paths, res) ==
  IF order = <<>> THEN [panicked |-> FALSE, paths |-> res]
  ELSE LET key == Head(order)
           source_path == current_paths[key]
           grid_path == Lookup(original_paths, key)
           cp == changed_path(grids_dir, key[1], key[2], source_path, grid_path)
       IN IF source_path # grid_path
          THEN IF cp.targetPath = Panic
               THEN [panicked |-> TRUE, paths |-> <<>>]
               ELSE filter_loop_break_on_unchanged(grids_dir, Tail(order),
                      current_paths, original_paths, Append(res, cp))
          ELSE [panicked |-> FALSE, paths |-> res]

\* filter_paths' loops, run over the slots of current_paths in the order the
\* hash maps iterate them. The result is [panicked, paths]: panicked is TRUE
\* when a slot's adjust_path panicked (no value is returned then).
RECURSIVE filter_loop(_, _, _, _, _)
filter_loop(grids_dir, order, current_paths, original_paths, res) ==
  IF order = <<>> THEN [panicked |-> FALSE, paths |-> res]
  ELSE LET key == Head(order)
           source_path == current_paths[key]
           grid_path == Lookup(original_paths, key)
           cp == changed_path(grids_dir, key[1], key[2], source_path, grid_path)
       IN IF source_path # grid_path
          THEN IF cp.targetPath = Panic
               THEN [panicked |-> TRUE, paths |-> <<>>]
               ELSE filter_loop(grids_dir, Tail(order), current_paths,
                                original_paths, Append(res, cp))
          ELSE filter_loop(grids_dir, Tail(order), current_paths,
                           original_paths, res)

\* filter_paths: resolves the grid directory of the active user, then filters.
filter_paths(active, order, current_paths, original_paths) ==
  filter_loop(get_grids_directory(active), order, current_paths,
              original_paths, <<>>)

\* The orders in which `for (appid, grids_map) in current_paths` and the inner
\* `for (grid_type, source_path) in grids_map` can visit the slots: any order
\* of the app ids and, within one app id, any order of its grid types.
IsIterationOrder(order, paths) ==
  /\ Len(order) = Cardinality(DOMAIN paths)
  /\ {order[i] : i \in 1..Len(order)} = DOMAIN paths
  /\ \A i, j, k \in 1..Len(order) :
       (i < j /\ j < k /\ order[i][1] = order[k][1]) => order[j][1] = order[i][1]

\* Mutant of check_for_shortcut_changes: the loop returns after its first
\* comparison.
check_for_shortcut_changes_first_only(shortcut_icons, original_shortcut_icons) ==
  IF shortcut_icons = <<>> THEN "false"
  ELSE IF Head(shortcut_icons)[1] \notin DOMAIN original_shortcut_icons
  THEN "panic"
  ELSE IF Head(shortcut_icons)[2] # original_shortcut_icons[Head(shortcut_icons)[1]]
  THEN "true"
  ELSE "false"

\* Mutant of check_for_shortcut_changes: the comparison is inverted.
RECURSIVE check_for_shortcut_changes_inverted(_, _)
check_for_shortcut_changes_inverted(shortcut_icons, original_shortcut_icons) ==
  IF shortcut_icons = <<>> THEN "false"
  ELSE LET shortcut_id == Head(shortcut_icons)[1]
           icon == Head(shortcut_icons)[2]
       IN IF shortcut_id \notin DOMAIN original_shortcut_icons THEN "panic"
          ELSE IF icon = original_shortcut_icons[shortcut_id] THEN "true"
          ELSE check_for_shortcut_changes_inverted(Tail(shortcut_icons),
                                                   original_shortcut_icons)

\* check_for_shortcut_changes: shortcut_icons is the sequence of
\* <<shortcut id, icon>> in the map's iteration order. The result is "true",
\* "false" or "panic" (an id without an entry in original_shortcut_icons).
RECURSIVE check_for_shortcut_changes(_, _)
check_for_shortcut_changes(shortcut_icons, original_shortcut_icons) ==
  IF shortcut_icons = <<>> THEN "false"
  ELSE LET shortcut_id == Head(shortcut_icons)[1]
           icon == Head(shortcut_icons)[2]
       IN IF shortcut_id \notin DOMAIN original_shortcut_icons THEN "panic"
          ELSE IF icon # original_shortcut_icons[shortcut_id] THEN "true"
          ELSE check_for_shortcut_changes(Tail(shortcut_icons),
                                          original_shortcut_icons)

----------------------------------------------------------------------------
(* State                                                                   *)

VARIABLES
  active_user,              \* the most recent user of the login-users file
  files,                    \* the file system: path -> content of each file
  shortcuts_vdf,            \* the content of shortcuts.vdf
  current_art,              \* save_changes argument (parsed): current slots
  original_art,             \* save_changes argument (parsed): original slots
  shortcuts,                \* save_changes argument: the shortcuts record set
  shortcut_icons,           \* save_changes argument, in iteration order
  original_shortcut_icons,  \* save_changes argument
  pc,                       \* position of the running handler
  paths_to_set,             \* save_changes local: the change-set
  idx,                      \* save_changes local: next record of the loop
  ops,                      \* file-system calls made so far, in order
  result,                   \* what the handler returned
  returned                  \* results of the filter_paths calls made so far

vars == <<active_user, files, shortcuts_vdf, current_art, original_art,
          shortcuts, shortcut_icons, original_shortcut_icons, pc,
          paths_to_set, idx, ops, result, returned>>

env_vars == <<active_user, files, shortcuts_vdf>>
request_vars == <<current_art, original_art, shortcuts, shortcut_icons,
                  original_shortcut_icons>>
save_vars == <<paths_to_set, idx, ops, result>>

----------------------------------------------------------------------------
(* Input domains                                                           *)

\* Largest number of slots in a submitted current map.
MaxEntries == 2

\* Steam users that can be the most recent one.
Users == {1, 2}

AppIds == {IntToString(7), IntToString(8)}

\* An unrecognized grid type.
LowerIcon == <<"i", "c", "o", "n">>

KnownGridTypes == {Capsule, WideCapsule, Hero, Logo, Icon}

SrcPng == <<"/", "t", "/", "a", ".", "p", "n", "g">>
SrcWebp == <<"/", "t", "/", "b", ".", "w", "e", "b", "p">>
SrcNoExt == <<"/", "t", "/", "c">>
\* A file outside every grid directory whose path contains "grid".
GridNamed == <<"/", "t", "/", "g", "r", "i", "d", ".", "p", "n", "g">>
\* A custom grid file applied by an earlier save of user 1.
OldGrid == PathJoin(get_grids_directory(1), <<"o", "l", "d", ".", "p", "n", "g">>)

SubsetsUpTo(S, n) == {K \in SUBSET S : Cardinality(K) <= n}

\* The maps with at most n slots among keys and values among vals.
MapsUpTo(keys, vals, n) == UNION {[K -> vals] : K \in SubsetsUpTo(keys, n)}

NoResult == [kind |-> "none"]

\* The name the shortcuts file is logged under.
ShortcutsVdf == <<"s", "h", "o", "r", "t", "c", "u", "t", "s", ".", "v", "d", "f">>

IconA == <<"/", "t", "/", "x", ".", "i", "c", "o">>
IconB == <<"/", "t", "/", "y", ".", "i", "c", "o">>
ExeA == <<"/", "b", "i", "n", "/", "a">>
ExeB == <<"/", "b", "i", "n", "/", "b">>

\* Largest number of entries in a submitted shortcut_icons map.
MaxShortcuts == 2

\* The sequences of at most n <<id, icon>> pairs with distinct ids: a
\* shortcut_icons map in one of its iteration orders.
IconSeqs(ids, icons, n) ==
  UNION {{q \in [1..k -> ids \X icons] :
            \A i, j \in 1..k : i # j => q[i][1] # q[j][1]} : k \in 0..n}

\* The original_shortcut_icons maps over ids.
IconMaps(ids, icons) == UNION {[K -> icons] : K \in SUBSET ids}

----------------------------------------------------------------------------
(* Reconciliation alone: filter_paths called on drawn maps                 *)

IdleVars ==
  /\ files = << >>
  /\ shortcuts_vdf = << >>
  /\ shortcuts = << >>
  /\ paths_to_set = << >>
  /\ idx = 1
  /\ ops = << >>
  /\ result = NoResult
  /\ returned = << >>

\* The slots of one app with every grid type, and one unrecognized type.
FilterKeys == {IntToString(7)} \X (KnownGridTypes \cup {LowerIcon})

\* A slot of another app, which only the original map may hold.
OtherKey == <<IntToString(8), Hero>>

InitFilter ==
  /\ active_user = 1
  /\ current_art \in MapsUpTo(FilterKeys, {REMOVE, SrcPng, SrcWebp, SrcNoExt}, MaxEntries)
  /\ original_art \in UNION {[K -> {SrcPng, OldGrid}] :
                               K \in SUBSET (DOMAIN current_art \cup {OtherKey})}
  /\ shortcut_icons = << >>
  /\ original_shortcut_icons = << >>
  /\ pc = "filter"
  /\ IdleVars

\* A call of filter_paths on the request's maps; each call iterates its own
\* hash maps, and reads the active user to resolve the grid directory.
\* pc = "twice": another call on the same maps follows.
CallFilterPaths ==
  /\ pc \in {"filter", "twice"}
  /\ pc' = IF pc = "twice" THEN "filter" ELSE "returned"
  /\ \E order \in [1..Cardinality(DOMAIN current_art) -> DOMAIN current_art] :
       /\ IsIterationOrder(order, current_art)
       /\ returned' = Append(returned,
            [grids_dir |-> get_grids_directory(active_user),
             out |-> filter_paths(active_user, order, current_art, original_art)])
  /\ UNCHANGED <<env_vars, request_vars, save_vars>>

NextFilter == CallFilterPaths

SpecFilter == InitFilter /\ [][NextFilter]_vars

\* Two calls on one pair of maps, between which the Steam client may make
\* another user the most recent one.
TwiceKeys == AppIds \X {Hero, Icon, LowerIcon}

InitTwice ==
  /\ active_user \in Users
  /\ current_art \in MapsUpTo(TwiceKeys, {REMOVE, SrcPng}, MaxEntries)
  /\ original_art \in MapsUpTo(TwiceKeys, {SrcPng}, 1)
  /\ shortcut_icons = << >>
  /\ original_shortcut_icons = << >>
  /\ pc = "twice"
  /\ IdleVars

\* Another Steam user becomes the most recent one (a login in the client).
SwitchUser ==
  /\ pc = "filter"
  /\ Len(returned) = 1
  /\ \E u \in Users \ {active_user} : active_user' = u
  /\ UNCHANGED <<files, shortcuts_vdf, request_vars, save_vars, pc, returned>>

NextTwice == CallFilterPaths \/ SwitchUser

SpecTwice == InitTwice /\ [][NextTwice]_vars

\* check_for_shortcut_changes alone, on drawn icon maps.
CheckIds == {IntToString(7), IntToString(8), IntToString(9)}

InitCheck ==
  /\ active_user = 1
  /\ current_art = << >>
  /\ original_art = << >>
  /\ shortcut_icons \in IconSeqs(CheckIds, {IconA, IconB}, MaxShortcuts)
  /\ original_shortcut_icons \in IconMaps(CheckIds, {IconA, IconB})
  /\ pc = "check"
  /\ IdleVars

CallCheckForShortcutChanges ==
  /\ pc = "check"
  /\ pc' = "returned"
  /\ result' = [kind |-> "check",
                value |-> check_for_shortcut_changes(shortcut_icons,
                                                     original_shortcut_icons)]
  /\ UNCHANGED <<env_vars, request_vars, paths_to_set, idx, ops, returned>>

NextCheck == CallCheckForShortcutChanges

SpecCheck == InitCheck /\ [][NextCheck]_vars

----------------------------------------------------------------------------
(* main.rs: save_changes                                                   *)

\* The paths_id_map key of a change-set entry: format!("{}_{}", appId, gridType).
path_id(entry) == entry.appId \o <<"_">> \o entry.gridType

\* paths_id_map: collect() of (key, entry) pairs into a HashMap; of two
\* entries with one key the later one stays.
paths_id_map(paths) ==
  [k \in {path_id(paths[i]) : i \in 1..Len(paths)} |->
     paths[CHOOSE i \in 1..Len(paths) :
             /\ path_id(paths[i]) = k
             /\ \A j \in 1..Len(paths) : path_id(paths[j]) = k => j <= i]]

\* The key save_changes looks a shortcut up with: format!("{}_icon", appid).
shortcut_path_key(shortcut) ==
  IntToString(shortcut.appid) \o <<"_", "i", "c", "o", "n">>

\* The loop over the shortcuts: the icon of a shortcut whose key is in
\* paths_id_map becomes that entry's targetPath.
patch_shortcuts(shortcuts_map, id_map) ==
  [i \in DOMAIN shortcuts_map |->
     IF shortcut_path_key(shortcuts_map[i]) \in DOMAIN id_map
     THEN [shortcuts_map[i] EXCEPT
             !.icon = id_map[shortcut_path_key(shortcuts_map[i])].targetPath]
     ELSE shortcuts_map[i]]

\* fs::remove_file: fails on a missing file, or when the environment refuses.
remove_fails(fs, path, env_fail) == path \notin DOMAIN fs \/ env_fail = "remove"

\* The file system after fs::remove_file(path) succeeded.
remove_file(fs, path) == [p \in (DOMAIN fs) \ {path} |-> fs[p]]

\* The file system after File::create(path) succeeded: the file exists and
\* is empty (an existing file is truncated).
create_file(fs, path) == [p \in (DOMAIN fs) \cup {path} |->
                            IF p = path THEN EmptyStr ELSE fs[p]]

\* fs::copy: fails on a missing source, or when the environment refuses.
copy_fails(fs, source, env_fail) == source \notin DOMAIN fs \/ env_fail = "copy"

\* The file system after fs::copy(source, target) succeeded.
copy_file(fs, source, target) == [p \in (DOMAIN fs) \cup {target} |->
                                    IF p = target THEN fs[source] ELSE fs[p]]

\* A logged file-system call: its name, the path it names (the destination
\* of a copy), the record of the loop it was made for, and whether it succeeded.
Op(name, path, rec, ok) == [op |-> name, path |-> path, rec |-> rec, ok |-> ok]

ErrorPayload(name, path) == [kind |-> "error", op |-> name, path |-> path]

\* Mutant of apply_changed_path: no branch for "REMOVE"; every record is
\* created and copied.
apply_changed_path_copying_remove(fs, changed_path_, i, env_fail) ==
  LET old == changed_path_.oldPath
      source == changed_path_.sourcePath
      target == changed_path_.targetPath
      removes == Contains(old, GridWord)
      rm_failed == removes /\ remove_fails(fs, old, env_fail)
      fs1 == IF removes /\ ~rm_failed THEN remove_file(fs, old) ELSE fs
      ops1 == IF removes THEN <<Op("remove", old, i, ~rm_failed)>> ELSE << >>
      create_failed == env_fail = "create"
      fs2 == create_file(fs1, target)
      cp_failed == copy_fails(fs2, source, env_fail)
      fs3 == copy_file(fs2, source, target)
  IN IF rm_failed
     THEN [fs |-> fs1, ops |-> ops1, next |-> ErrorPayload("remove", old)]
     ELSE IF create_failed
     THEN [fs |-> fs1,
           ops |-> ops1 \o <<Op("create", target, i, FALSE)>>,
           next |-> [kind |-> "panic"]]
     ELSE IF cp_failed
     THEN [fs |-> fs2,
           ops |-> ops1 \o <<Op("create", target, i, TRUE),
                             Op("copy", target, i, FALSE)>>,
           next |-> ErrorPayload("copy", source)]
     ELSE [fs |-> fs3,
           ops |-> ops1 \o <<Op("create", target, i, TRUE),
                             Op("copy", target, i, TRUE)>>,
           next |-> [kind |-> "continue"]]

\* One pass of the loop over paths_to_set, for record i, with the environment
\* failing the file-system call env_fail ("none": no call is refused).
\* The outcome is [fs, ops, next]: next is "continue", or the value the
\* handler ends with: an error payload, or a panic.
apply_changed_path(fs, changed_path_, i, env_fail) ==
  LET old == changed_path_.oldPath
      source == changed_path_.sourcePath
      target == changed_path_.targetPath
      removes == Contains(old, GridWord)
      rm_failed == removes /\ remove_fails(fs, old, env_fail)
      fs1 == IF removes /\ ~rm_failed THEN remove_file(fs, old) ELSE fs
      ops1 == IF removes THEN <<Op("remove", old, i, ~rm_failed)>> ELSE << >>
      create_failed == env_fail = "create"
      fs2 == create_file(fs1, target)
      cp_failed == copy_fails(fs2, source, env_fail)
      fs3 == copy_file(fs2, source, target)
  IN IF rm_failed
     THEN [fs |-> fs1, ops |-> ops1, next |-> ErrorPayload("remove", old)]
     ELSE IF target = REMOVE
     THEN [fs |-> fs1, ops |-> ops1, next |-> [kind |-> "continue"]]
     ELSE IF create_failed
     THEN [fs |-> fs1,
           ops |-> ops1 \o <<Op("create", target, i, FALSE)>>,
           next |-> [kind |-> "panic"]]
     ELSE IF cp_failed
     THEN [fs |-> fs2,
           ops |-> ops1 \o <<Op("create", target, i, TRUE),
                             Op("copy", target, i, FALSE)>>,
           next |-> ErrorPayload("copy", source)]
     ELSE [fs |-> fs3,
           ops |-> ops1 \o <<Op("create", target, i, TRUE),
                             Op("copy", target, i, TRUE)>>,
           next |-> [kind |-> "continue"]]

\* Lines 250-256: the change-set is computed by filter_paths.
FilterPaths ==
  /\ pc = "save"
  /\ \E order \in [1..Cardinality(DOMAIN current_art) -> DOMAIN current_art] :
       /\ IsIterationOrder(order, current_art)
       /\ LET out == filter_paths(active_user, order, current_art, original_art)
          IN IF out.panicked
             THEN /\ pc' = "done"
                  /\ result' = [kind |-> "panic"]
                  /\ UNCHANGED paths_to_set
             ELSE /\ pc' = "apply"
                  /\ paths_to_set' = out.paths
                  /\ UNCHANGED result
  /\ UNCHANGED <<env_vars, request_vars, idx, ops, returned>>

\* Lines 258-292: one pass of the loop over paths_to_set.
ApplyChangedPath ==
  /\ pc = "apply"
  /\ idx <= Len(paths_to_set)
  /\ \E env_fail \in {"none", "remove", "create", "copy"} :
       LET out == apply_changed_path(files, paths_to_set[idx], idx, env_fail)
       IN /\ files' = out.fs
          /\ ops' = ops \o out.ops
          /\ IF out.next.kind = "continue"
             THEN /\ idx' = idx + 1
                  /\ UNCHANGED <<pc, result>>
             ELSE /\ pc' = "done"
                  /\ result' = out.next
                  /\ UNCHANGED idx
  /\ UNCHANGED <<active_user, shortcuts_vdf, request_vars, paths_to_set, returned>>

\* Lines 294-337: after the loop, the shortcuts file is rewritten when
\* check_for_shortcut_changes says so, and the change-set is returned.
WriteShortcuts ==
  /\ pc = "apply"
  /\ idx > Len(paths_to_set)
  /\ LET should_change_shortcuts ==
           check_for_shortcut_changes(shortcut_icons, original_shortcut_icons)
         shortcuts_data == patch_shortcuts(shortcuts, paths_id_map(paths_to_set))
     IN /\ pc' = "done"
        /\ IF should_change_shortcuts = "panic"
           THEN /\ result' = [kind |-> "panic"]
                /\ UNCHANGED <<shortcuts_vdf, ops>>
           ELSE IF should_change_shortcuts = "true"
           THEN /\ shortcuts_vdf' = shortcuts_data
                /\ ops' = Append(ops, Op("write_shortcuts_vdf", ShortcutsVdf, 0, TRUE))
                /\ result' = [kind |-> "paths", paths |-> paths_to_set]
           ELSE /\ result' = [kind |-> "paths", paths |-> paths_to_set]
                /\ UNCHANGED <<shortcuts_vdf, ops>>
  /\ UNCHANGED <<active_user, files, request_vars, paths_to_set, idx, returned>>

\* The shortcuts record set submitted with a save: the shortcuts tree as it
\* was read, entry i having the ordinal key i - 1.
SubmittedShortcuts ==
  <<[appid |-> 7, icon |-> IconA, exe |-> ExeA],
    [appid |-> 9, icon |-> IconB, exe |-> ExeB]>>

SaveKeys == AppIds \X {Hero, Icon}

\* The files of a file system in which every path a request names exists,
\* each holding content of its own (named after the path).
FilesOf(current, original) ==
  LET named == ({current[k] : k \in DOMAIN current} \ {REMOVE})
                 \cup {original[k] : k \in DOMAIN original}
  IN [p \in named |-> p]

Init ==
  /\ active_user = 1
  /\ current_art \in MapsUpTo(SaveKeys, {REMOVE, SrcPng, SrcWebp}, MaxEntries)
  /\ original_art \in UNION {[K -> {OldGrid, GridNamed}] :
                               K \in SUBSET DOMAIN current_art}
  /\ files = FilesOf(current_art, original_art)
  /\ shortcuts = SubmittedShortcuts
  /\ shortcuts_vdf = SubmittedShortcuts
  /\ shortcut_icons \in IconSeqs({IntToString(7)}, {IconA, IconB}, MaxShortcuts)
  /\ original_shortcut_icons \in IconMaps({IntToString(7)}, {IconA, IconB})
  /\ pc = "save"
  /\ paths_to_set = << >>
  /\ idx = 1
  /\ ops = << >>
  /\ result = NoResult
  /\ returned = << >>

Next == FilterPaths \/ ApplyChangedPath \/ WriteShortcuts

Spec == Init /\ [][Next]_vars

----------------------------------------------------------------------------
(* Properties                                                              *)

\* write_shortcuts_vdf has been called by the running save.
ShortcutsWritten == \E k \in 1..Len(ops) : ops[k].op = "write_shortcuts_vdf"

\* The slot of a change-set entry.
SlotOf(entry) == <<entry.appId, entry.gridType>>

\* The path lies in the grid directory of the active user.
UnderGridDir(path) == StartsWith(path, get_grids_directory(active_user) \o <<"/">>)

\* C1: whenever the shortcuts file is rewritten, every shortcut whose appid
\* equals the appId of an "Icon" record of the change-set has, in the data
\* written, the icon field equal to that record's targetPath (stated here for
\* the records whose targetPath names a file).
C1_ShortcutIconLinkage ==
  ShortcutsWritten =>
    \A i \in DOMAIN shortcuts_vdf : \A j \in 1..Len(paths_to_set) :
      (/\ paths_to_set[j].gridType = Icon
       /\ paths_to_set[j].appId = IntToString(shortcuts[i].appid)
       /\ paths_to_set[j].targetPath # REMOVE)
        => shortcuts_vdf[i].icon = paths_to_set[j].targetPath

\* Entry i of shortcut_icons has a previously-known icon.
IconKnown(i) == shortcut_icons[i][1] \in DOMAIN original_shortcut_icons

\* Entry i of shortcut_icons differs from its previously-known icon.
IconDiffers(i) ==
  /\ IconKnown(i)
  /\ shortcut_icons[i][2] # original_shortcut_icons[shortcut_icons[i][1]]

SomeIconDiffers == \E i \in 1..Len(shortcut_icons) : IconDiffers(i)

\* C2 as stated: for every pair of maps, check_for_shortcut_changes returns
\* true if some submitted icon differs from its previously-known icon, and
\* false otherwise.
C2_ReturnsWhetherSomeIconDiffers ==
  result.kind = "check" =>
    result.value = IF SomeIconDiffers THEN "true" ELSE "false"

\* C2 amended: when every submitted id has a previously-known icon, the
\* function returns true if some submitted icon differs and false otherwise;
\* when some submitted id has none, it never returns false: it returns true if
\* a differing entry is visited before every such id, and panics otherwise.
C2_ReturnsWhetherSomeKnownIconDiffers ==
  result.kind = "check" =>
    IF \A i \in 1..Len(shortcut_icons) : IconKnown(i)
    THEN result.value = IF SomeIconDiffers THEN "true" ELSE "false"
    ELSE result.value =
           IF \E i \in 1..Len(shortcut_icons) :
                IconDiffers(i) /\ \A j \in 1..(i - 1) : IconKnown(j)
           THEN "true" ELSE "panic"

\* C2 witness: two known ids, only the second one differs, true is returned.
C2_Witness ==
  /\ result.kind = "check"
  /\ result.value = "true"
  /\ Len(shortcut_icons) = 2
  /\ IconKnown(1) /\ IconKnown(2)
  /\ ~IconDiffers(1) /\ IconDiffers(2)

\* The file-name ending of each grid type, as the naming convention lists it.
TypeSuffix(grid_type) ==
  CASE grid_type = Capsule -> <<"p">>
    [] grid_type = WideCapsule -> << >>
    [] grid_type = Hero -> <<"_", "h", "e", "r", "o">>
    [] grid_type = Logo -> <<"_", "l", "o", "g", "o">>
    [] grid_type = Icon -> <<"_", "i", "c", "o", "n">>
    [] OTHER -> <<"?">>

\* The extension of a path: its ending that starts with '.' and holds no other.
ExtensionOf(path) ==
  CHOOSE e \in {SubSeq(path, i, Len(path)) : i \in 1..Len(path)} :
    /\ e[1] = "."
    /\ \A k \in 2..Len(e) : e[k] # "."

\* The destination of a slot by the grid directory convention.
ConventionalTarget(grids_dir, appid, grid_type, source) ==
  LET named == grids_dir \o <<"/">> \o appid \o TypeSuffix(grid_type)
                 \o ExtensionOf(source)
  IN IF EndsWith(named, DotWebp)
     THEN SubSeq(named, 1, Len(named) - Len(DotWebp)) \o DotJpg
     ELSE named

\* The slot is changed: its current path is not its original path.
Changed(key) == current_art[key] # Lookup(original_art, key)

\* The entries of a change-set for a slot.
EntriesOf(paths, key) == {j \in 1..Len(paths) : SlotOf(paths[j]) = key}

\* C3: in every change-set filter_paths returns, each changed slot whose
\* current path is not "REMOVE" has a record whose targetPath is the grid
\* directory, "/", and the name of the slot by type with the extension of the
\* source path, with .webp rewritten to .jpg; its sourcePath is the source
\* path as submitted.
C3_TargetPathNaming ==
  \A c \in 1..Len(returned) :
    ~returned[c].out.panicked =>
      \A key \in DOMAIN current_art :
        (Changed(key) /\ current_art[key] # REMOVE) =>
          /\ EntriesOf(returned[c].out.paths, key) # {}
          /\ \A j \in EntriesOf(returned[c].out.paths, key) :
               /\ returned[c].out.paths[j].targetPath =
                    ConventionalTarget(returned[c].grids_dir, key[1], key[2],
                                       current_art[key])
               /\ returned[c].out.paths[j].sourcePath = current_art[key]

\* C3 witness: a .webp source for the Hero slot of app 7 was given the
\* target <grid directory>/7_hero.jpg and kept its source path.
C3_Witness ==
  \E c \in 1..Len(returned) : \E j \in 1..Len(returned[c].out.paths) :
    /\ SlotOf(returned[c].out.paths[j]) = <<IntToString(7), Hero>>
    /\ returned[c].out.paths[j].sourcePath = SrcWebp
    /\ returned[c].out.paths[j].targetPath =
         <<"/", "s", "/", "u", "s", "e", "r", "d", "a", "t", "a", "/", "1", "/",
           "c", "o", "n", "f", "i", "g", "/", "g", "r", "i", "d", "/",
           "7", "_", "h", "e", "r", "o", ".", "j", "p", "g">>

\* C4: a change-set filter_paths returns holds exactly one record for each
\* slot of current whose path differs from the original's (absent: the empty
\* string), none for a slot whose path equals it, and none for a slot that
\* only original has.
C4_OneRecordPerChangedSlot ==
  \A c \in 1..Len(returned) :
    ~returned[c].out.panicked =>
      /\ \A key \in DOMAIN current_art :
           Cardinality(EntriesOf(returned[c].out.paths, key)) =
             IF Changed(key) THEN 1 ELSE 0
      /\ \A j \in 1..Len(returned[c].out.paths) :
           SlotOf(returned[c].out.paths[j]) \in DOMAIN current_art

\* C4 witness: a returned change-set of one record, for maps with a changed
\* slot, an unchanged slot and a slot only original has.
C4_Witness ==
  \E c \in 1..Len(returned) :
    /\ ~returned[c].out.panicked
    /\ Len(returned[c].out.paths) = 1
    /\ \E k1, k2 \in DOMAIN current_art :
         /\ Changed(k1)
         /\ ~Changed(k2)
         /\ current_art[k2] # EmptyStr
    /\ DOMAIN original_art \ DOMAIN current_art # {}


\* The loop of save_changes is about to apply a record of a "REMOVE" slot.
ApplyingRemove ==
  /\ pc = "apply"
  /\ idx <= Len(paths_to_set)
  /\ current_art[SlotOf(paths_to_set[idx])] = REMOVE

\* C5: the record of a changed slot whose current value is "REMOVE" has
\* targetPath "REMOVE"; the pass of the loop that applies it creates no file
\* and makes no create or copy call, and when its oldPath lies in the grid
\* directory it calls remove_file on it: the file is gone, or the save ends
\* with the error.
C5_RemoveRecordOnlyDeletes ==
  /\ [](\A j \in 1..Len(paths_to_set) :
          current_art[SlotOf(paths_to_set[j])] = REMOVE
            => paths_to_set[j].targetPath = REMOVE)
  /\ [][ApplyingRemove =>
          /\ DOMAIN files' \subseteq DOMAIN files
          /\ \A k \in (Len(ops) + 1)..Len(ops') :
               /\ ops'[k].op = "remove"
               /\ ops'[k].path = paths_to_set[idx].oldPath
          /\ UnderGridDir(paths_to_set[idx].oldPath) =>
               /\ Len(ops') = Len(ops) + 1
               /\ IF ops'[Len(ops')].ok
                  THEN /\ paths_to_set[idx].oldPath \notin DOMAIN files'
                       /\ idx' = idx + 1
                  ELSE /\ pc' = "done"
                       /\ result'.kind = "error"]_vars

\* C5 witness: the record of a "REMOVE" slot with an oldPath in the grid
\* directory has been applied: one successful remove_file, the file is gone.
C5_Witness ==
  \E j \in 1..Len(paths_to_set) :
    /\ j < idx
    /\ paths_to_set[j].targetPath = REMOVE
    /\ UnderGridDir(paths_to_set[j].oldPath)
    /\ paths_to_set[j].oldPath \notin DOMAIN files
    /\ \E k \in 1..Len(ops) :
         ops[k] = Op("remove", paths_to_set[j].oldPath, j, TRUE)

\* C7: a file-system call that fails (remove, create or copy) is the last
\* call of the save, which ends at once returning the error payload of that
\* call, without rewriting the shortcuts file.
C7_FailureReturnsErrorPayload ==
  \A k \in 1..Len(ops) :
    ~ops[k].ok =>
      /\ k = Len(ops)
      /\ pc = "done"
      /\ result.kind = "error"
      /\ result.op = ops[k].op
      /\ shortcuts_vdf = shortcuts

\* C8: every file a save removes lies in the grid directory.
C8_RemovesOnlyGridFiles ==
  \A k \in 1..Len(ops) :
    (ops[k].op = "remove" /\ ops[k].ok) => UnderGridDir(ops[k].path)

\* C9: the shortcuts file is rewritten only if some submitted icon differs
\* from its previously-known icon, and is left as it was otherwise; a save
\* that runs to its end (returns the change-set) has rewritten it if and only
\* if some submitted icon differs, whatever the change-set holds.
C9_ShortcutsGate ==
  /\ ShortcutsWritten => SomeIconDiffers
  /\ ~ShortcutsWritten => shortcuts_vdf = shortcuts
  /\ (pc = "done" /\ result.kind = "paths") =>
       (ShortcutsWritten <=> SomeIconDiffers)

\* C9 witness: a save has returned a change-set with an Icon record for the
\* app of a shortcut, no submitted icon differs, and nothing was written.
C9_Witness ==
  /\ pc = "done"
  /\ result.kind = "paths"
  /\ Len(shortcut_icons) > 0
  /\ ~SomeIconDiffers
  /\ ~ShortcutsWritten
  /\ \E i \in DOMAIN shortcuts : \E j \in 1..Len(paths_to_set) :
       /\ paths_to_set[j].gridType = Icon
       /\ paths_to_set[j].appId = IntToString(shortcuts[i].appid)
       /\ paths_to_set[j].targetPath # REMOVE

\* The slot has a grid type outside the enumeration.
Unrecognized(key) == key[2] \notin KnownGridTypes

\* C10 as stated: filter_paths fails on every current map that holds a slot
\* with an unrecognized grid type, so no record has such a type.
C10_UnrecognizedTypeAlwaysFails ==
  \A c \in 1..Len(returned) :
    /\ (\E key \in DOMAIN current_art : Unrecognized(key))
         => returned[c].out.panicked
    /\ \A j \in 1..Len(returned[c].out.paths) :
         ~Unrecognized(SlotOf(returned[c].out.paths[j]))

\* C10 amended: filter_paths fails on every current map that holds a changed
\* slot with an unrecognized grid type whose value is not "REMOVE"; a record
\* with an unrecognized type is produced only for a changed slot whose value
\* is "REMOVE" (one record, targetPath "REMOVE"), and an unrecognized slot
\* equal to its original is skipped.
C10_UnrecognizedTypeFailsWhenNamed ==
  \A c \in 1..Len(returned) :
    /\ (\E key \in DOMAIN current_art :
          Unrecognized(key) /\ Changed(key) /\ current_art[key] # REMOVE)
         => returned[c].out.panicked
    /\ \A j \in 1..Len(returned[c].out.paths) :
         Unrecognized(SlotOf(returned[c].out.paths[j]))
           => /\ returned[c].out.paths[j].targetPath = REMOVE
              /\ current_art[SlotOf(returned[c].out.paths[j])] = REMOVE
    /\ ~returned[c].out.panicked =>
         \A key \in DOMAIN current_art :
           Unrecognized(key) =>
             Cardinality(EntriesOf(returned[c].out.paths, key)) =
               IF Changed(key) THEN 1 ELSE 0

\* C10 witness: a call failed on a map whose only slot that cannot be named
\* is a changed slot of unrecognized type with a path.
C10_Witness ==
  \E c \in 1..Len(returned) :
    /\ returned[c].out.panicked
    /\ \E key \in DOMAIN current_art :
         /\ Unrecognized(key)
         /\ current_art[key] = SrcPng
    /\ \A key \in DOMAIN current_art : current_art[key] # SrcNoExt

\* The records of a change-set, without their order.
RecordSet(paths) == {paths[j] : j \in 1..Len(paths)}

----------------------------------------------------------------------------
(* save_changes on requests that name icon slots of shortcuts              *)

\* The icon slots of the two submitted shortcuts, under the type name of the
\* naming table ("Icon") and under the lower-case name of the lookup key.
ShortcutKeys == {IntToString(7), IntToString(9)} \X {Icon, LowerIcon}

InitShortcuts ==
  /\ active_user = 1
  /\ current_art \in MapsUpTo(ShortcutKeys, {REMOVE, SrcPng}, MaxEntries)
  /\ original_art \in UNION {[K -> {OldGrid}] : K \in SUBSET DOMAIN current_art}
  /\ files = FilesOf(current_art, original_art)
  /\ shortcuts = SubmittedShortcuts
  /\ shortcuts_vdf = SubmittedShortcuts
  /\ shortcut_icons \in IconSeqs({IntToString(7)}, {IconA, IconB}, MaxShortcuts)
  /\ original_shortcut_icons \in IconMaps({IntToString(7)}, {IconA, IconB})
  /\ pc = "save"
  /\ paths_to_set = << >>
  /\ idx = 1
  /\ ops = << >>
  /\ result = NoResult
  /\ returned = << >>

SpecShortcuts == InitShortcuts /\ [][Next]_vars

\* Shortcut entry i is matched by the icon linkage: the change-set holds an
\* (appId, "Icon") record whose appId is the entry's appid.
LinkedByIcon(i) ==
  \E k \in 1..Len(paths_to_set) :
    /\ paths_to_set[k].gridType = Icon
    /\ paths_to_set[k].appId = IntToString(shortcuts[i].appid)

\* Entry i reaches write_shortcuts_vdf with every field but icon as submitted.
OtherFieldsKept(i) ==
  /\ DOMAIN shortcuts_vdf[i] = DOMAIN shortcuts[i]
  /\ \A f \in (DOMAIN shortcuts[i]) \ {"icon"} : shortcuts_vdf[i][f] = shortcuts[i][f]

\* The entries written are the entries submitted, under the same keys, each
\* with every field but icon as submitted.
EntriesAndFieldsKept ==
  ShortcutsWritten =>
    /\ DOMAIN shortcuts_vdf = DOMAIN shortcuts
    /\ \A i \in DOMAIN shortcuts : OtherFieldsKept(i)

\* C11: when save_changes rewrites the shortcuts, the data passed to
\* write_shortcuts_vdf has the submitted entries under the submitted keys,
\* every field other than icon is as submitted, and every entry that the
\* icon linkage does not match is passed exactly as submitted.
C11_OnlyLinkedIconsChange ==
  ShortcutsWritten =>
    /\ DOMAIN shortcuts_vdf = DOMAIN shortcuts
    /\ \A i \in DOMAIN shortcuts :
         /\ OtherFieldsKept(i)
         /\ ~LinkedByIcon(i) => shortcuts_vdf[i] = shortcuts[i]


----------------------------------------------------------------------------
(* filter_paths on app ids and source paths of any shape                   *)

\* A source file without extension in a directory whose name has a '.'.
SrcDotDir == <<"/", "t", ".", "d", "/", "c">>

\* An app id string that begins with a path separator.
SlashAppId == <<"/">> \o IntToString(7)

TargetKeys == {IntToString(7), SlashAppId} \X {Hero, WideCapsule}

InitTarget ==
  /\ active_user = 1
  /\ current_art \in MapsUpTo(TargetKeys, {REMOVE, SrcPng, SrcWebp, SrcDotDir}, MaxEntries)
  /\ original_art \in UNION {[K -> {OldGrid}] : K \in SUBSET DOMAIN current_art}
  /\ shortcut_icons = << >>
  /\ original_shortcut_icons = << >>
  /\ pc = "filter"
  /\ IdleVars

SpecTarget == InitTarget /\ [][NextFilter]_vars

\* The path names a file directly inside dir: dir, a separator, and a
\* non-empty file name without separator.
DirectlyInside(path, dir) ==
  /\ StartsWith(path, dir \o <<"/">>)
  /\ Len(path) > Len(dir) + 1
  /\ \A i \in (Len(dir) + 2)..Len(path) : path[i] # "/"

\* C12: every targetPath other than "REMOVE" of a change-set returned by
\* filter_paths names a file directly inside the grid directory the call
\* resolved, whatever the app id strings and the source paths are.
C12_TargetDirectlyInGridDir ==
  \A k \in 1..Len(returned) :
    ~returned[k].out.panicked =>
      \A n \in 1..Len(returned[k].out.paths) :
        LET target == returned[k].out.paths[n].targetPath
        IN target # REMOVE => DirectlyInside(target, returned[k].grids_dir)


----------------------------------------------------------------------------
(* save_changes on sources that lie in the grid directory                  *)

\* The file of user 1's grid directory with the conventional name of the
\* hero of app 7: an image applied by an earlier save, or placed there.
Grid7Hero ==
  PathJoin(get_grids_directory(1),
           get_grid_filename(IntToString(7), Hero, <<".", "p", "n", "g">>))

OverlapKeys == AppIds \X {Hero, Logo}

\* Every slot of the original map names a file of its own.

InitOverlap ==
  /\ active_user = 1
  /\ current_art \in MapsUpTo(OverlapKeys, {REMOVE, SrcPng, Grid7Hero, OldGrid}, MaxEntries)
  /\ original_art \in UNION {[K -> {OldGrid, Grid7Hero}] : K \in SUBSET DOMAIN current_art}
  /\ \A k1, k2 \in DOMAIN original_art : original_art[k1] = original_art[k2] => k1 = k2
  /\ files = FilesOf(current_art, original_art)
  /\ shortcuts = SubmittedShortcuts
  /\ shortcuts_vdf = SubmittedShortcuts
  /\ shortcut_icons = << >>
  /\ original_shortcut_icons = << >>
  /\ pc = "save"
  /\ paths_to_set = << >>
  /\ idx = 1
  /\ ops = << >>
  /\ result = NoResult
  /\ returned = << >>

SpecOverlap == InitOverlap /\ [][Next]_vars

\* The file system when the save started.
FilesAtStart == FilesOf(current_art, original_art)

\* The record the loop has just applied without failure.
JustApplied == pc = "apply" /\ idx > 1

\* C13: right after save_changes applied a record whose targetPath is not
\* "REMOVE" without failure, the file at targetPath holds the content the
\* file at sourcePath held when the save started, and the source file still
\* holds that content; also when sourcePath and targetPath are one file.
C13_TargetHoldsSourceBytes ==
  JustApplied =>
    LET rec == paths_to_set[idx - 1]
    IN rec.targetPath # REMOVE =>
         /\ rec.targetPath \in DOMAIN files
         /\ rec.sourcePath \in DOMAIN files
         /\ files[rec.targetPath] = FilesAtStart[rec.sourcePath]
         /\ files[rec.sourcePath] = FilesAtStart[rec.sourcePath]


----------------------------------------------------------------------------
(* The order of the change-set                                             *)

\* The loop over paths_to_set from record i on, no file-system call being
\* refused by the environment: the file system it leaves, and "paths" when
\* it ran to the end or the kind of value the handler ended with.
RECURSIVE apply_loop(_, _, _)
apply_loop(fs, paths, i) ==
  IF i > Len(paths) THEN [fs |-> fs, kind |-> "paths"]
  ELSE LET out == apply_changed_path(fs, paths[i], i, "none")
       IN IF out.next.kind = "continue"
          THEN apply_loop(out.fs, paths, i + 1)
          ELSE [fs |-> out.fs, kind |-> out.next.kind]

\* save_changes up to the end of its loop when the hash maps are iterated
\* in the given order.
save_outcome(order) ==
  LET out == filter_paths(active_user, order, current_art, original_art)
  IN IF out.panicked
     THEN [fs |-> FilesAtStart, kind |-> "panic"]
     ELSE apply_loop(FilesAtStart, out.paths, 1)

\* The loop of the running save has ended, at its end or with an error.
LoopEnded ==
  \/ pc = "apply" /\ idx > Len(paths_to_set)
  \/ pc = "done" /\ result.kind = "error"

\* The last file-system call failed though its file was there: the
\* environment refused it.
EnvRefused ==
  /\ Len(ops) > 0
  /\ LET last == ops[Len(ops)]
     IN /\ ~last.ok
        /\ \/ last.op = "create"
           \/ last.op = "remove" /\ last.path \in DOMAIN files
           \/ last.op = "copy" /\ paths_to_set[last.rec].sourcePath \in DOMAIN files

\* What the running save has reached at the end of its loop.
LoopOutcome == [fs |-> files, kind |-> IF pc = "apply" THEN "paths" ELSE "error"]

\* The loop of the running save ends as apply_loop computes it.
LoopOutcomeIsApplyLoop ==
  (LoopEnded /\ ~EnvRefused) => apply_loop(FilesAtStart, paths_to_set, 1) = LoopOutcome

\* C14: the file system and the success/error result a save reaches at the
\* end of its loop (no call being refused by the environment) are the ones
\* every iteration order of the current map reaches: the result does not
\* depend on the order in which the records are applied.
C14_OrderIndependent ==
  (LoopEnded /\ ~EnvRefused) =>
    \A order \in [1..Cardinality(DOMAIN current_art) -> DOMAIN current_art] :
      IsIterationOrder(order, current_art) => save_outcome(order) = LoopOutcome

====
